---- MODULE Spec2Model ----
(***************************************************************************)
(* Galileo AI Data Science Tutor (src/BI_Agent.py): the Streamlit script   *)
(* as a state machine.  One action is one run of the script, started by    *)
(* one user interaction; st.session_state persists between the runs.       *)
(*                                                                         *)
(* Text is a sequence of one-character strings, so that str.strip,         *)
(* str.split and "\n".join are computed as Python computes them.           *)
(* Python's None is the value None below, a text no reply can be.          *)
(*                                                                         *)
(* st.session_state is taken as the source uses it: a dict that keeps      *)
(* what was assigned until it is assigned again.  A widget's value is an   *)
(* input of the run that reads it, except the three the runs depend on     *)
(* later (lifecycle_step, code_editor, task_radio), which are variables.   *)
(***************************************************************************)
EXTENDS Naturals, Sequences, FiniteSets

\* ---------------------------------------------------------------- bounds

\* Longest generation reply / text-area content drawn in the exhaustive
\* specifications SpecGen and SpecTasks.
MaxReplyLen == 4

MaxTextLen == 3

\* ------------------------------------------------------ Python's values

None == <<"None">>

\* pandas' NaN, what a sheet yields for an empty cell.
NaN == <<"NaN">>

\* bool(v) of a str, a list or None.
Truthy(v) == v # None /\ v # <<>>

\* str.strip() with no argument strips these.
Whitespace == {" ", "\t", "\n", "\r"}

Range(s) == {s[i] : i \in 1..Len(s)}

\* All texts over alphabet A of length at most n.
Texts(A, n) == UNION {[1..k -> A] : k \in 0..n}

\* str.lstrip(chars): drop the longest prefix made of members of chars.
LStrip(s, chars) ==
    LET keep == {i \in 1..Len(s) : s[i] \notin chars}
    IN  IF keep = {} THEN <<>>
        ELSE LET first == CHOOSE i \in keep : \A j \in keep : i <= j
             IN  SubSeq(s, first, Len(s))

\* str.rstrip(chars): drop the longest suffix made of members of chars.
RStrip(s, chars) ==
    LET keep == {i \in 1..Len(s) : s[i] \notin chars}
    IN  IF keep = {} THEN <<>>
        ELSE LET last == CHOOSE i \in keep : \A j \in keep : j <= i
             IN  SubSeq(s, 1, last)

\* str.strip(chars): chars is a SET of characters, not a substring.
StripChars(s, chars) == RStrip(LStrip(s, chars), chars)

\* str.strip()
Strip(s) == StripChars(s, Whitespace)

\* s.split(sep) for a one-character sep: always at least one piece.
RECURSIVE Split(_, _)
Split(s, sep) ==
    LET hits == {i \in 1..Len(s) : s[i] = sep}
    IN  IF hits = {} THEN <<s>>
        ELSE LET first == CHOOSE i \in hits : \A j \in hits : i <= j
             IN  <<SubSeq(s, 1, first - 1)>> \o Split(SubSeq(s, first + 1, Len(s)), sep)

\* sep.join(parts) for a one-character sep.
RECURSIVE Join(_, _)
Join(parts, sep) ==
    IF parts = <<>> THEN <<>>
    ELSE IF Len(parts) = 1 THEN parts[1]
    ELSE parts[1] \o <<sep>> \o Join(Tail(parts), sep)

\* [f(x) for x in xs if x.strip()] with f = strip: the comprehension of
\* lines 154, 236 and 273.
RECURSIVE StrippedNonEmpty(_)
StrippedNonEmpty(lines) ==
    IF lines = <<>> THEN <<>>
    ELSE (IF Truthy(Strip(Head(lines))) THEN <<Strip(Head(lines))>> ELSE <<>>)
         \o StrippedNonEmpty(Tail(lines))

\* The comprehension with its filter on the raw line ("if step") in place
\* of the stripped one ("if step.strip()").
RECURSIVE StrippedTruthy(_)
StrippedTruthy(lines) ==
    IF lines = <<>> THEN <<>>
    ELSE (IF Truthy(Head(lines)) THEN <<Strip(Head(lines))>> ELSE <<>>)
         \o StrippedTruthy(Tail(lines))

ParseTasksRawFilter(text) == StrippedTruthy(Split(text, "\n"))

ParseTasks(text) == StrippedNonEmpty(Split(text, "\n"))

\* The backtick character (SANY's lexer refuses it inside a string).
BQ == "BACKTICK"

\* The two literals handed to str.strip on line 302: three backticks and
\* the word python, and three backticks.
FencePython == <<BQ, BQ, BQ, "p", "y", "t", "h", "o", "n">>

Fence == <<BQ, BQ, BQ>>

\* The fences taken off the front only (lstrip for strip).
StripFencesLeadingOnly(code) ==
    LStrip(LStrip(Strip(code), Range(FencePython)), Range(Fence))

\* code.strip().strip(FencePython).strip(Fence)
StripFences(code) ==
    StripChars(StripChars(Strip(code), Range(FencePython)), Range(Fence))

\* ------------------------------------------------- the two capabilities

\* What client.chat.completions.create does in one call: it raises
\* (GroqError) or it yields the completion text.
GroqError == <<"GroqError">>

\* No call_groq call was made in the run.
NotCalled == <<"NotCalled">>

\* call_groq (lines 27-35): the completion, or None after st.error.
call_groq(outcome) == IF outcome = GroqError THEN None ELSE outcome

\* A dict is the set of its <<key, value>> items.
HasKey(d, k) == \E item \in d : item[1] = k

\* What requests.post / raise_for_status do in one call: raise one of
\* these RequestException subclasses (post.raises), or raise nothing
\* ("none") and hand back the JSON reply post.json (a dict).
RequestExceptions == {"ConnectionError", "Timeout", "HTTPError"}

Raises(e) == [raises |-> e, json |-> {}]

Replies(json) == [raises |-> "none", json |-> json]

\* run_code_in_n8n with "except requests.exceptions.ConnectionError": a
\* timeout or an error status escapes to the caller.
run_code_in_n8n_ConnectionErrorOnly(code_to_run, df, post) ==
    LET payload == {<<"code", code_to_run>>}
                   \cup (IF df # None THEN {<<"df_json", df>>} ELSE {})
    IN  IF post.raises = "ConnectionError"
        THEN [value   |-> {<<"error", <<"Failed to connect to n8n execution engine", post.raises>>>>},
              payload |-> payload, posts |-> 1, raised |-> "none"]
        ELSE [value   |-> post.json,
              payload |-> payload, posts |-> 1, raised |-> post.raises]

\* run_code_in_n8n (lines 37-47).  value: what it returns; posts: how many
\* times it called requests.post; raised: what it let escape.
run_code_in_n8n(code_to_run, df, post) ==
    LET payload == {<<"code", code_to_run>>}
                   \cup (IF df # None THEN {<<"df_json", df>>} ELSE {})
    IN  IF post.raises \in RequestExceptions
        THEN [value   |-> {<<"error", <<"Failed to connect to n8n execution engine", post.raises>>>>},
              payload |-> payload, posts |-> 1, raised |-> "none"]
        ELSE [value   |-> post.json,
              payload |-> payload, posts |-> 1, raised |-> "none"]

\* ------------------------------------------------------- session state

\* "# Your Python code will appear here" (line 53).
Placeholder ==
    <<"#", " ", "Y", "o", "u", "r", " ", "P", "y", "t", "h", "o", "n", " ",
      "c", "o", "d", "e", " ", "w", "i", "l", "l", " ", "a", "p", "p", "e",
      "a", "r", " ", "h", "e", "r", "e">>

\* init_session_state (lines 50-59).
InitialSessionState ==
    [code                       |-> Placeholder,
     result                     |-> {},
     df                         |-> None,
     problem_statement          |-> <<>>,
     enhanced_problem_statement |-> <<>>,
     target_variable            |-> None,
     suggested_tasks            |-> <<>>,
     current_task               |-> None,
     explanation                |-> <<>>,
     plan_generated_for         |-> None]

\* What one run of the script leaves behind besides st.session_state:
\* press, the button it handled; groq, what call_groq returned in it;
\* posts, sent and post, its POSTs to the webhook, the payload of the last
\* and what requests raised for it; read_csv, what pd.read_csv did ("ok",
\* "raised"); fault, an exception no handler caught (Streamlit shows it
\* and the run ends there).
QuietRun ==
    [press |-> "none", groq |-> NotCalled, posts |-> 0, sent |-> {},
     post |-> "none", read_csv |-> "none", fault |-> "none"]

\* The working state of a run: the session and the run's record.
Ctx(ss) == [ss |-> ss, run |-> QuietRun, rerun |-> FALSE]

Faulted(c) == c.run.fault # "none"

\* A widget the user did not touch before the run.
NoInput == <<"NoInput">>

\* ------------------------------------- Module 1: Define Problem & Load Data

\* The table pd.read_csv yields: the list of its columns.
Table == <<"Sex", "Survived">>

\* The first entry of the "Select a Problem Statement" box (line 119).
Dash == <<"-">>

\* Line 153-154: the steps of a sheet row, one per line; a cell that is
\* empty or not a str (NaN) gives no steps.
KeyAnalyticsSteps(key_steps_raw) ==
    IF Truthy(key_steps_raw) /\ key_steps_raw # NaN
    THEN ParseTasks(key_steps_raw)
    ELSE <<>>

\* Lines 122-165, for the sheet row project_details; csv is what
\* pd.read_csv(dataset_url) does: "ok" or "fail" (it raises).
PredefinedProject(c, project_details, outcome, csv) ==
    LET ps == project_details.problem_statement
        c1 == [c EXCEPT !.ss.problem_statement = ps]
        c2 == IF c1.ss.plan_generated_for # ps
              THEN [c1 EXCEPT !.ss.enhanced_problem_statement = call_groq(outcome),
                              !.ss.plan_generated_for = ps,
                              !.run.groq = call_groq(outcome)]
              ELSE c1
    IN  [c2 EXCEPT !.ss.suggested_tasks = KeyAnalyticsSteps(project_details.key_steps),
                   !.ss.df = IF csv = "ok" THEN Table ELSE None,
                   !.run.read_csv = IF csv = "ok" THEN "ok" ELSE "raised"]

\* Lines 171-180.
EnhanceWithAI(c, button, outcome) ==
    IF button = "Enhance"
    THEN IF Truthy(c.ss.problem_statement)
         THEN [c EXCEPT !.run.press = "Enhance",
                        !.run.groq = call_groq(outcome),
                        !.ss.enhanced_problem_statement = call_groq(outcome)]
         ELSE [c EXCEPT !.run.press = "Enhance"]
    ELSE c

\* Lines 182-194.  data is what the data widgets hold and what reading it
\* does: no file and no URL ("none"), an uploaded file that parses
\* ("upload_ok") or does not ("upload_bad": line 187 is in no try, the
\* exception ends the run), a URL that loads ("url_ok") or does not
\* ("url_bad": caught, st.error, df untouched).
ProvideData(c, data) ==
    CASE data = "upload_ok"  -> [c EXCEPT !.ss.df = Table, !.run.read_csv = "ok"]
      [] data = "upload_bad" -> [c EXCEPT !.run.read_csv = "raised",
                                          !.run.fault = "ParserError"]
      [] data = "url_ok"     -> [c EXCEPT !.ss.df = Table, !.run.read_csv = "ok"]
      [] data = "url_bad"    -> [c EXCEPT !.run.read_csv = "raised"]
      [] OTHER               -> c

\* Lines 214-223.  The assignment of line 220 comes after the text area of
\* line 206 took the key enhanced_problem_statement; Streamlit raises
\* StreamlitAPIException for such an assignment (raises = TRUE), and the
\* frameworks that allow it (raises = FALSE) let it through.  st.rerun()
\* ends the run and starts the script again.
RefineWithAI(c, button, outcome, raises) ==
    IF button = "Refine"
    THEN IF Truthy(c.ss.enhanced_problem_statement)
         THEN LET refined_plan == call_groq(outcome)
                  c1 == [c EXCEPT !.run.press = "Refine", !.run.groq = refined_plan]
              IN  IF Truthy(refined_plan)
                  THEN IF raises
                       THEN [c1 EXCEPT !.run.fault = "StreamlitAPIException"]
                       ELSE [c1 EXCEPT !.ss.enhanced_problem_statement = refined_plan,
                                       !.rerun = TRUE]
                  ELSE [c1 EXCEPT !.rerun = TRUE]
         ELSE [c EXCEPT !.run.press = "Refine"]
    ELSE c

\* Lines 229-236: the text area shows the joined tasks, and what it
\* returns (the user's text, or the joined tasks when the user typed
\* nothing) is parsed back into the task list.
KeyAnalyticsStepsArea(c, tasks_edit) ==
    LET tasks_text == Join(c.ss.suggested_tasks, "\n")
        edited_tasks_text == IF tasks_edit = NoInput THEN tasks_text ELSE tasks_edit
    IN  [c EXCEPT !.ss.suggested_tasks = ParseTasks(edited_tasks_text)]

\* Lines 197-236.
CommonDisplayBlock(c, button, outcome, raises, tasks_edit) ==
    IF Faulted(c) \/ c.ss.df = None THEN c
    ELSE LET c1 == RefineWithAI(c, button, outcome, raises)
         IN  IF Faulted(c1) \/ c1.rerun THEN c1
             ELSE KeyAnalyticsStepsArea(
                      IF button = "Save" THEN [c1 EXCEPT !.run.press = "Save"] ELSE c1,
                      tasks_edit)

\* What the widgets of Module 1 hold in a run and what the reads do:
\* problem_source ("own" or "predef"), selected (the sheet row chosen;
\* DashRow when "-" is chosen or the sheet could not be read, lines 94-96
\* and 106-108), csv and data as above.
DashRow == [problem_statement |-> Dash, key_steps |-> <<>>]

WidgetContexts(rows) ==
    {[problem_source |-> "predef", selected |-> r, csv |-> c, data |-> "none"] :
        r \in rows, c \in {"ok", "fail"}}
    \cup {[problem_source |-> "predef", selected |-> DashRow, csv |-> "ok", data |-> "none"]}
    \cup {[problem_source |-> "own", selected |-> DashRow, csv |-> "ok", data |-> d] :
        d \in {"none", "upload_ok", "upload_bad", "url_ok", "url_bad"}}

\* What the user did to start the run: typed (the basic problem statement,
\* key problem_statement), plan_edit (the plan text area, key
\* enhanced_problem_statement), tasks_edit (the steps text area), button.
Event(typed, plan_edit, tasks_edit, button, outcome, raises) ==
    [typed |-> typed, plan_edit |-> plan_edit, tasks_edit |-> tasks_edit,
     button |-> button, outcome |-> outcome, raises |-> raises]

NoEvent == Event(NoInput, NoInput, NoInput, "none", GroqError, FALSE)

\* Lines 73-236, one pass over the script.
Module1Pass(ss, wc, ev) ==
    LET s1 == IF ev.typed = NoInput THEN ss
              ELSE [ss EXCEPT !.problem_statement = ev.typed]
        s2 == IF ev.plan_edit = NoInput THEN s1
              ELSE [s1 EXCEPT !.enhanced_problem_statement = ev.plan_edit]
        c0 == Ctx(s2)
        c1 == IF wc.problem_source = "predef"
              THEN IF Truthy(wc.selected.problem_statement)
                      /\ wc.selected.problem_statement # Dash
                   THEN PredefinedProject(c0, wc.selected, ev.outcome, wc.csv)
                   ELSE c0
              ELSE ProvideData(EnhanceWithAI(c0, ev.button, ev.outcome), wc.data)
    IN  CommonDisplayBlock(c1, ev.button, ev.outcome, ev.raises, ev.tasks_edit)

\* One run of Module 1: a pass, and after st.rerun() a second pass in
\* which no widget was touched.
Module1(ss, wc, ev) ==
    LET c == Module1Pass(ss, wc, ev)
    IN  IF c.rerun
        THEN LET d == Module1Pass(c.ss, wc, NoEvent)
             IN  [d EXCEPT !.run.press = c.run.press, !.run.groq = c.run.groq]
        ELSE c

\* ------------------------------------------- Module 2: Understand Your Data

\* Lines 239-254: the select box offers None and the columns.
Module2(ss, target) ==
    IF ss.df = None THEN Ctx(ss)
    ELSE Ctx([ss EXCEPT !.target_variable = target])

\* ---------------------------------------- Module 3: Guided Data Analysis

\* The handler without the "if tasks:" of line 272, splitting str(tasks).
SuggestAnalysisStepsUnguarded(c, button, outcome) ==
    IF ~Truthy(c.ss.suggested_tasks) /\ button = "Suggest"
    THEN LET tasks == call_groq(outcome)
         IN  [c EXCEPT !.run.press = "Suggest",
                       !.run.groq = tasks,
                       !.ss.suggested_tasks =
                           ParseTasks(IF tasks = None THEN <<"N", "o", "n", "e">>
                                      ELSE tasks)]
    ELSE c

\* Lines 263-273: the button exists only while the task list is empty.
SuggestAnalysisSteps(c, button, outcome) ==
    IF ~Truthy(c.ss.suggested_tasks) /\ button = "Suggest"
    THEN LET tasks == call_groq(outcome)
         IN  [c EXCEPT !.run.press = "Suggest",
                       !.run.groq = tasks,
                       !.ss.suggested_tasks =
                           IF Truthy(tasks) THEN ParseTasks(tasks) ELSE @]
    ELSE c

\* Lines 275-276: current_task is overwritten by the radio's choice.
SelectTask(c, radio) ==
    IF Truthy(c.ss.suggested_tasks)
    THEN [c EXCEPT !.ss.current_task = c.ss.suggested_tasks[radio]]
    ELSE c

\* Lines 288-302.
GenerateCode(c, button, outcome) ==
    IF button = "Generate"
    THEN LET code == call_groq(outcome)
         IN  [c EXCEPT !.run.press = "Generate",
                       !.run.groq = code,
                       !.ss.code = IF Truthy(code) THEN StripFences(code) ELSE @]
    ELSE c

\* Lines 306-320: the session's code is what is sent, and the explanation
\* is assigned only when the result holds no error.
ExecuteCode(c, button, post, outcome) ==
    IF button = "Execute"
    THEN LET r  == run_code_in_n8n(c.ss.code, c.ss.df, post)
             c1 == [c EXCEPT !.run.press = "Execute",
                             !.run.posts = r.posts,
                             !.run.sent = r.payload,
                             !.run.post = post.raises]
         IN  IF r.raised # "none"
             THEN [c1 EXCEPT !.run.fault = r.raised]
             ELSE IF ~HasKey(r.value, "error")
             THEN [c1 EXCEPT !.ss.result = r.value,
                             !.ss.explanation = call_groq(outcome),
                             !.run.groq = call_groq(outcome)]
             ELSE [c1 EXCEPT !.ss.result = r.value]
    ELSE c

\* Lines 323-351.  base64 has no b4decode: line 330 raises AttributeError
\* whenever the result holds image_data, and the run ends there.
OutputAndExplanation(c, button, outcome) ==
    IF Faulted(c) THEN c
    ELSE IF HasKey(c.ss.result, "image_data")
    THEN [c EXCEPT !.run.fault = "AttributeError"]
    ELSE IF HasKey(c.ss.result, "error") /\ button = "Debug"
    THEN [c EXCEPT !.run.press = "Debug", !.run.groq = call_groq(outcome)]
    ELSE c

\* Lines 257-351, one run.  typed is the text the user put in the
\* "custom task" input (its key is current_task, so it is in the session
\* before the script starts); radio is the index the task radio holds.
Module3(ss, radio, typed, button, post, outcome) ==
    LET c0 == Ctx(IF typed = NoInput THEN ss
                  ELSE [ss EXCEPT !.current_task = typed])
    IN  IF ss.df = None THEN Ctx(ss)
        ELSE LET c1 == SuggestAnalysisSteps(c0, button, outcome)
                 c2 == SelectTask(c1, IF c1.ss.suggested_tasks = ss.suggested_tasks
                                      THEN radio ELSE 1)
             IN  IF ~Truthy(c2.ss.current_task) THEN c2
                 ELSE OutputAndExplanation(
                          ExecuteCode(GenerateCode(c2, button, outcome),
                                      button, post, outcome),
                          button, outcome)

\* ------------------------------------------------------------ the inputs

\* Two rows of the project sheet: one with steps (a blank line and padded
\* lines among them), one whose steps cell is empty (NaN).
ProjectSheet ==
    {[problem_statement |-> <<"P", "1">>,
      key_steps |-> <<"a", "\n", " ", "\n", " ", "b", " ">>],
     [problem_statement |-> <<"P", "2">>, key_steps |-> NaN]}

\* Prose completions (a plan, an explanation).
ProseOutcomes == {GroqError, <<"prose">>}

\* Completions of the "suggest steps" prompt: none, blank, two steps.
TaskOutcomes ==
    {GroqError, <<>>, <<" ", "\n", "\t">>, <<"x", "\n", "\n", " ", "y", " ">>}

\* What the user may type in the steps text area.
TaskEdits == {<<>>, <<" ", "c", "\n", " ">>}

\* Completions of the "generate code" prompt: none, empty, a fenced
\* snippet.
CodeOutcomes ==
    {GroqError, <<>>,
     <<BQ, BQ, BQ, "p", "y", "t", "h", "o", "n", "\n", "d", "f", "\n", BQ, BQ, BQ>>}

\* Completions of the debugging prompt: the corrected snippet.
FixOutcomes == {GroqError, <<"d", "f", ".", "S", "e", "x">>}

\* What the webhook call does: a RequestException, or its JSON reply.
PostOutcomes ==
    {Raises(e) : e \in RequestExceptions}
    \cup {Replies({<<"image_data", <<"iVBORw0KGgo=">>>>}),
          Replies({<<"error", <<"KeyError: Fart">>>>}),
          Replies({})}

NoPost == Replies({})

\* What the user may type as problem statement, plan, custom task, code.
ProblemTexts == {<<>>, <<"goal">>}

PlanTexts == {<<"my plan">>}

CustomTasks == {<<>>, <<"bar chart">>}

CodeEdits == {<<"d", "f", ".", "A", "g", "e">>}

\* The characters of the exhaustive replies of SpecGenerate: a backtick,
\* a letter of the word python, another letter, a blank, a line break.
CodeAlphabet == {BQ, "p", "x", " ", "\n"}

\* The characters of the exhaustive texts of SpecTasks.
TaskAlphabet == {"a", " ", "\n"}

\* The options of the sidebar radio (lines 67-68).
DefineProblem == "1. Define Problem & Load Data"

UnderstandData == "2. Understand Your Data"

GuidedAnalysis == "3. Guided Data Analysis"

\* session_state: st.session_state.  lifecycle_step, code_editor and
\* task_radio: what the sidebar radio, the "Edit Code" text area and the
\* task radio hold.  run: the record of the last run of the script.
VARIABLES session_state, lifecycle_step, code_editor, task_radio, run

vars == <<session_state, lifecycle_step, code_editor, task_radio, run>>

\* The first run of the script: Module 1, nothing typed or pressed.
Init ==
    /\ session_state = InitialSessionState
    /\ lifecycle_step = DefineProblem
    /\ code_editor = InitialSessionState.code
    /\ task_radio = 1
    /\ run = QuietRun

\* ------------------------------------------------------ Module 1 actions

\* The task radio of Module 3 starts at its first option whenever its
\* options are not the ones it was last shown with.
RadioAfter(ss, radio) ==
    IF ss.suggested_tasks = session_state.suggested_tasks THEN radio ELSE 1

M1Run(wc, ev) ==
    LET c == Module1(session_state, wc, ev)
    IN  /\ ev.button # "none" => c.run.press = ev.button
        /\ session_state' = c.ss
        /\ run' = c.run
        /\ lifecycle_step' = DefineProblem
        /\ task_radio' = RadioAfter(c.ss, task_radio)
        /\ UNCHANGED code_editor

\* No project is being selected in this run: the widgets held the same
\* project in the run before.
Settled(wc) ==
    (wc.problem_source = "predef" /\ wc.selected # DashRow)
        => session_state.plan_generated_for = wc.selected.problem_statement

\* The user opens Module 1, switches the problem source, selects a
\* project, uploads a file or enters a URL.
M1Visit(wc, outcome) ==
    M1Run(wc, Event(NoInput, NoInput, NoInput, "none", outcome, FALSE))

M1TypeProblem(wc, text) ==
    /\ lifecycle_step = DefineProblem
    /\ wc.problem_source = "own"
    /\ M1Run(wc, Event(text, NoInput, NoInput, "none", GroqError, FALSE))

M1Enhance(wc, outcome) ==
    /\ lifecycle_step = DefineProblem
    /\ wc.problem_source = "own"
    /\ M1Run(wc, Event(NoInput, NoInput, NoInput, "Enhance", outcome, FALSE))

M1EditPlan(wc, text) ==
    /\ lifecycle_step = DefineProblem
    /\ session_state.df # None
    /\ Settled(wc)
    /\ M1Run(wc, Event(NoInput, text, NoInput, "none", GroqError, FALSE))

M1Refine(wc, outcome, raises) ==
    /\ lifecycle_step = DefineProblem
    /\ session_state.df # None
    /\ Settled(wc)
    /\ M1Run(wc, Event(NoInput, NoInput, NoInput, "Refine", outcome, raises))

M1Save(wc) ==
    /\ lifecycle_step = DefineProblem
    /\ session_state.df # None
    /\ Settled(wc)
    /\ M1Run(wc, Event(NoInput, NoInput, NoInput, "Save", GroqError, FALSE))

M1EditTasks(wc, text) ==
    /\ lifecycle_step = DefineProblem
    /\ session_state.df # None
    /\ Settled(wc)
    /\ M1Run(wc, Event(NoInput, NoInput, text, "none", GroqError, FALSE))

\* ------------------------------------------------------ Module 2 actions

\* The user opens Module 2: the select box holds what it held.
M2Visit ==
    LET c == Module2(session_state, session_state.target_variable)
    IN  /\ session_state' = c.ss
        /\ run' = c.run
        /\ lifecycle_step' = UnderstandData
        /\ UNCHANGED <<code_editor, task_radio>>

M2SelectTarget(target) ==
    LET c == Module2(session_state, target)
    IN  /\ lifecycle_step = UnderstandData
        /\ session_state.df # None
        /\ target \in {None} \cup {<<col>> : col \in Range(session_state.df)}
        /\ session_state' = c.ss
        /\ run' = c.run
        /\ UNCHANGED <<lifecycle_step, code_editor, task_radio>>

\* ------------------------------------------------------ Module 3 actions

M3Run(radio, typed, button, post, outcome) ==
    LET c == Module3(session_state, radio, typed, button, post, outcome)
    IN  /\ button # "none" => c.run.press = button
        /\ session_state' = c.ss
        /\ run' = c.run
        /\ lifecycle_step' = GuidedAnalysis
        /\ task_radio' = RadioAfter(c.ss, radio)

\* The user opens Module 3.
M3Visit ==
    /\ M3Run(task_radio, NoInput, "none", NoPost, GroqError)
    /\ UNCHANGED code_editor

M3SelectTask(i) ==
    /\ lifecycle_step = GuidedAnalysis
    /\ session_state.df # None
    /\ i \in 1..Len(session_state.suggested_tasks)
    /\ M3Run(i, NoInput, "none", NoPost, GroqError)
    /\ UNCHANGED code_editor

M3CustomTask(text) ==
    /\ lifecycle_step = GuidedAnalysis
    /\ session_state.df # None
    /\ M3Run(task_radio, text, "none", NoPost, GroqError)
    /\ UNCHANGED code_editor

\* The "Edit Code" text area (line 304): its content goes to the widget
\* state code_editor and nowhere else.
M3EditCode(text) ==
    /\ lifecycle_step = GuidedAnalysis
    /\ session_state.df # None
    /\ M3Run(task_radio, NoInput, "none", NoPost, GroqError)
    /\ Truthy(session_state'.current_task)
    /\ code_editor' = text

M3Suggest(outcome) ==
    /\ lifecycle_step = GuidedAnalysis
    /\ M3Run(task_radio, NoInput, "Suggest", NoPost, outcome)
    /\ UNCHANGED code_editor

\* A text area given a new value under the same key shows the new value or
\* keeps what it held, by the Streamlit version.
M3Generate(outcome) ==
    /\ lifecycle_step = GuidedAnalysis
    /\ M3Run(task_radio, NoInput, "Generate", NoPost, outcome)
    /\ code_editor' \in {code_editor, session_state'.code}

M3Execute(post, outcome) ==
    /\ lifecycle_step = GuidedAnalysis
    /\ M3Run(task_radio, NoInput, "Execute", post, outcome)
    /\ UNCHANGED code_editor

M3Debug(outcome) ==
    /\ lifecycle_step = GuidedAnalysis
    /\ M3Run(task_radio, NoInput, "Debug", NoPost, outcome)
    /\ UNCHANGED code_editor

\* ------------------------------------------------------ specifications

OwnContexts == {wc \in WidgetContexts({}) : wc.problem_source = "own"}

\* Module 1 over the widget contexts wcs.
NextModule1(wcs) ==
    \/ \E wc \in wcs, o \in ProseOutcomes : M1Visit(wc, o)
    \/ \E wc \in wcs, t \in ProblemTexts : M1TypeProblem(wc, t)
    \/ \E wc \in wcs, o \in ProseOutcomes : M1Enhance(wc, o)
    \/ \E wc \in wcs, t \in PlanTexts : M1EditPlan(wc, t)
    \/ \E wc \in wcs, o \in ProseOutcomes, raises \in BOOLEAN : M1Refine(wc, o, raises)
    \/ \E wc \in wcs : M1Save(wc)
    \/ \E wc \in wcs, t \in TaskEdits : M1EditTasks(wc, t)

NextModule2 ==
    \/ M2Visit
    \/ \E target \in {None} \cup {<<col>> : col \in Range(Table)} : M2SelectTarget(target)

NextModule3 ==
    \/ M3Visit
    \/ \E i \in 1..2 : M3SelectTask(i)
    \/ \E t \in CustomTasks : M3CustomTask(t)
    \/ \E t \in CodeEdits : M3EditCode(t)
    \/ \E o \in TaskOutcomes : M3Suggest(o)
    \/ \E o \in CodeOutcomes : M3Generate(o)
    \/ \E post \in PostOutcomes, o \in ProseOutcomes : M3Execute(post, o)
    \/ \E o \in FixOutcomes : M3Debug(o)

\* The whole application.
Next ==
    \/ NextModule1(WidgetContexts(ProjectSheet))
    \/ NextModule2
    \/ NextModule3

Spec == Init /\ [][Next]_vars

\* Modules 1 and 2: the user defines the problem and loads the data.
NextSetup ==
    \/ NextModule1(WidgetContexts(ProjectSheet))
    \/ NextModule2

SpecSetup == Init /\ [][NextSetup]_vars

\* The guided analysis loop: the user loads a table of their own (an
\* upload or a URL), edits the steps, and works in Module 3.
NextLoop ==
    \/ \E wc \in OwnContexts : M1Visit(wc, GroqError)
    \/ \E wc \in OwnContexts, t \in TaskEdits : M1EditTasks(wc, t)
    \/ NextModule3

SpecLoop == Init /\ [][NextLoop]_vars

UploadOk == {wc \in OwnContexts : wc.data = "upload_ok"}

\* Code generation over every reply of at most MaxReplyLen characters:
\* the user loads a table, names a task and presses "Generate Code" on the
\* placeholder.
GenerateReplies == Texts(CodeAlphabet, MaxReplyLen) \cup CodeOutcomes

NextGenerate ==
    \/ \E wc \in UploadOk : M1Visit(wc, GroqError)
    \/ M3Visit
    \/ \E t \in CustomTasks : M3CustomTask(t)
    \/ \E o \in GenerateReplies :
           session_state.code = Placeholder /\ M3Generate(o)

SpecGenerate == Init /\ [][NextGenerate]_vars

\* The task list over every text of at most MaxTextLen characters, from
\* its three writers: a project row's steps, the steps text area, the
\* "suggest steps" reply.
TaskTexts == Texts(TaskAlphabet, MaxTextLen)

TaskRows ==
    {[problem_statement |-> <<"P", "1">>, key_steps |-> k] : k \in TaskTexts \cup {NaN}}

NextTasks ==
    \/ \E wc \in WidgetContexts(TaskRows) : M1Visit(wc, GroqError)
    \/ \E wc \in UploadOk, t \in TaskTexts : M1EditTasks(wc, t)
    \/ M3Visit
    \/ \E o \in TaskTexts \cup {GroqError} : M3Suggest(o)

SpecTasks == Init /\ [][NextTasks]_vars

\* ------------------------------------------------------------ the claims

StartsWith(s, prefix) ==
    Len(s) >= Len(prefix) /\ SubSeq(s, 1, Len(prefix)) = prefix

EndsWith(s, suffix) ==
    Len(s) >= Len(suffix) /\ SubSeq(s, Len(s) - Len(suffix) + 1, Len(s)) = suffix

Blank(s) == Range(s) \subseteq Whitespace

\* C1: every entry of the session's suggested_tasks is a non-empty string
\* that is not whitespace-only, whatever project row, steps text or
\* "suggest steps" reply it was parsed from (SpecTasks).
C1_TasksNeverBlank ==
    \A i \in 1..Len(session_state.suggested_tasks) :
        ~Blank(session_state.suggested_tasks[i])

\* C1's case: a reply with a blank line among its lines was parsed into a
\* task list that is not empty.
C1_Witness ==
    /\ run.press = "Suggest"
    /\ Truthy(run.groq)
    /\ \E line \in Range(Split(run.groq, "\n")) : Blank(line)
    /\ session_state.suggested_tasks # <<>>

\* C2: after "Generate Code" with a non-empty reply, the stored code
\* neither begins nor ends with three backticks, with or without the
\* word python (SpecGenerate).
C2_NoFenceAtEitherEnd ==
    (run.press = "Generate" /\ Truthy(run.groq)) =>
        /\ ~StartsWith(session_state.code, Fence)
        /\ ~EndsWith(session_state.code, Fence)
        /\ ~EndsWith(session_state.code, FencePython)

\* C2's case: a reply fenced at both ends was stored.
C2_Witness ==
    /\ run.press = "Generate"
    /\ StartsWith(run.groq, FencePython)
    /\ EndsWith(run.groq, Fence)
    /\ Truthy(session_state.code)

\* C3: when the POST raises a RequestException, run_code_in_n8n has made
\* one POST, nothing escaped the run, and the session's result holds a
\* populated error and no image_data (SpecLoop).
C3_PostFailureBecomesErrorResult ==
    run.post \in RequestExceptions =>
        /\ run.posts = 1
        /\ run.fault = "none"
        /\ \E item \in session_state.result : item[1] = "error" /\ Truthy(item[2])
        /\ ~HasKey(session_state.result, "image_data")

\* C3's case: the POST timed out in a session that had a successful
\* execution (and its explanation) before.
C3_Witness ==
    /\ run.press = "Execute"
    /\ run.post = "Timeout"
    /\ Truthy(session_state.explanation)

\* C4: a run of "Suggest Analysis Steps" in which call_groq returned None
\* leaves the task list empty, leaves current_task, code, result and
\* explanation as they were, and POSTs nothing (SpecLoop).
C4_FailedSuggestStaysIdle ==
    [][(run'.press = "Suggest" /\ run'.groq = None) =>
          /\ session_state'.suggested_tasks = <<>>
          /\ session_state'.current_task = session_state.current_task
          /\ session_state'.code = session_state.code
          /\ session_state'.result = session_state.result
          /\ session_state'.explanation = session_state.explanation
          /\ run'.posts = 0]_vars

\* C4's case: the generation failed in a session that holds a task, a
\* result and an explanation.
C4_Witness ==
    /\ run.press = "Suggest"
    /\ run.groq = None
    /\ Truthy(session_state.current_task)
    /\ session_state.result # {}
    /\ Truthy(session_state.explanation)

\* C5: after a run in which pd.read_csv raised, the failure was caught
\* (nothing escaped the run) and no table is loaded (SpecSetup).
C5_FailedIngestionLeavesNoTable ==
    run.read_csv = "raised" =>
        (run.fault = "none" /\ session_state.df = None)

\* C6: after "Ask Tutor to Debug" with a fix returned, the session's code
\* is the corrected snippet (SpecLoop).
C6_FixReplacesCode ==
    (run.press = "Debug" /\ Truthy(run.groq)) => session_state.code = run.groq

\* C7: after "Execute Code" the explanation is empty or is the one this
\* execution generated (SpecLoop).
C7_ExplanationIsOfThisExecution ==
    run.press = "Execute" =>
        \/ ~Truthy(session_state.explanation)
        \/ (run.groq # NotCalled /\ session_state.explanation = run.groq)

\* C8: after the user edited the "Edit Code" text, "Execute Code" sends
\* the text the editor shows (SpecLoop).
C8_EditedCodeIsSent ==
    (run.press = "Execute" /\ code_editor \in CodeEdits) =>
        <<"code", code_editor>> \in run.sent

\* C9: for a reply with no backtick, the stored code is the reply with its
\* surrounding whitespace trimmed (SpecGenerate).
C9_OnlyFencesRemoved ==
    (run.press = "Generate" /\ Truthy(run.groq) /\ BQ \notin Range(run.groq)) =>
        session_state.code = Strip(run.groq)

\* C10: a run in which call_groq returned None leaves
\* enhanced_problem_statement, code, explanation and plan_generated_for as
\* they were (SpecSetup).
C10_FailedGenerationWritesNothing ==
    [][run'.groq = None =>
          /\ session_state'.enhanced_problem_statement
                 = session_state.enhanced_problem_statement
          /\ session_state'.code = session_state.code
          /\ session_state'.explanation = session_state.explanation
          /\ session_state'.plan_generated_for = session_state.plan_generated_for]_vars
====
